---- MODULE Spec2Model ----
(***************************************************************************)
(* git-remote-min: the remote helper of src/git-remote-min/index.js as a   *)
(* state machine.                                                          *)
(*                                                                         *)
(* The helper registers an async listener on readline's "line" event.      *)
(* readline does not wait for the promise the listener returns, so every   *)
(* input line starts its own handler; a handler runs until it awaits real  *)
(* I/O (an HTTP request or a git child process) and is resumed when that   *)
(* I/O completes.  JavaScript runs one such segment at a time, so one      *)
(* action of the model is one segment: from the line event, or from an I/O *)
(* completion, up to the next await of I/O or the end of the handler.      *)
(***************************************************************************)
EXTENDS Integers, Sequences, FiniteSets, TLC

\* ---- bounds of the model ----
MaxLines == 4      \* input lines read from stdin

\* ---- the finite universe of values ----
Refs == {"main", "dev"}          \* remote ref names / push destinations
Srcs == {"s1", "s2"}             \* local ref expressions of push lines
PushArgs == {<<"s1", "main">>, <<"s2", "dev">>}   \* the <src>:<dst> of push lines
FetchArgs == {<<"o1", "main">>}  \* the <oid> <ref> of fetch lines
Oids == {"o1", "o2"}             \* object ids
PackIds == {"p1"}                \* pack identifiers handed out by the store
NoPackId == ""                   \* a falsy packId (absent, null or "")

\* Messages are sequences of text pieces; the three characters the quoted
\* message of an error line is sensitive to are pieces of their own.
QUOTE == "\""
BACKSLASH == "\\"
NEWLINE == "\n"

\* messages of the errors the code throws
\* line 56: fetch() rejects (connection refused, DNS, ...)
FetchFailed == << "fetch failed" >>
\* line 60: `HTTP ${res.status} ${method} ${path} ${text}`, text being the
\* body of the answer, here a JSON error object on a line of its own
HttpStatusError == << "HTTP status method path {", QUOTE, "error", QUOTE, ":",
                      QUOTE, "conflict", QUOTE, "}", NEWLINE >>
\* line 67: `Non-JSON response: ${text}`, here a body that quotes a name
NonJsonError == << "Non-JSON response: no ref ", QUOTE, "refs", BACKSLASH, "main", QUOTE >>
HttpErrors == {FetchFailed, HttpStatusError, NonJsonError}
\* any of them thrown where nothing catches it: the message goes to stderr
\* with the crash and the cases do not differ on the protocol stream
HttpFailure == << "http threw" >>
IndexPackError == << "git index-pack exited" >>
PackObjectsError == << "git pack-objects exited" >>
RevParseExitError == << "git rev-parse exited" >>
NoPackIdError == << "upload /packs returned no packId" >>
RevParseError == << "rev-parse failed" >>

\* what git rev-parse <src> prints in the local repository when it succeeds
LocalRefs == [s \in Srcs |-> IF s = "s1" THEN "o1" ELSE "o2"]

\* a ref of a GET /refs response
RefEntry(n, o, p) == [name |-> n, oid |-> o, packId |-> p]

\* the bodies GET /refs answers with (j.refs)
RefLists ==
    { <<>>,
      << RefEntry("main", "o1", "p1") >>,
      << RefEntry("main", "o2", NoPackId), RefEntry("dev", "o1", "p1") >> }

\* an input line, already split: cmd = parts[0], a = parts[1], b = the rest
InputLine(c, a, b) == [cmd |-> c, a |-> a, b |-> b]

VARIABLES
    input,            \* the lines readline has delivered so far
    handlers,         \* handlers[h]: the invocation of the listener for line h
    refToPackId,      \* Map refname -> packId (NoPackId: no entry)
    heap,             \* the array objects pendingPushes has referred to
    pendingPushes,    \* reference (index into heap) of the current array
    readingPushBatch,
    output,           \* lines written to stdout
    httpLog,          \* HTTP requests issued, in order
    files,            \* files in GIT_DIR/objects/pack written by the helper
    now,              \* the last value Date.now() returned
    alive             \* the process has not died of an unhandled rejection

vars == << input, handlers, refToPackId, heap, pendingPushes, readingPushBatch,
           output, httpLog, files, now, alive >>

\* ---- records ----
NoPath == [ext |-> "", t |-> 0]
Path(ext, t) == [ext |-> ext, t |-> t]

\* a line on stdout; ln is the input line of the push a status line reports
\* msg is what an error line holds between the two quotes of its template
OutLine(h, kind, a, b, ln, path) ==
    [h |-> h, kind |-> kind, a |-> a, b |-> b, ln |-> ln, path |-> path,
     msg |-> <<>>]
ErrorLine(h, dst, msg, ln) ==
    [OutLine(h, "error", dst, "", ln, NoPath) EXCEPT !.msg = msg]
Blank(h) == OutLine(h, "blank", "", "", 0, NoPath)

\* an HTTP request; updates is the body of POST /updateRefs
Request(h, op, updates) == [h |-> h, op |-> op, updates |-> updates]

\* the local state of a handler
Handler(pc) ==
    [pc |-> pc, packId |-> NoPackId, arr |-> 0, i |-> 0, updates |-> <<>>,
     res |-> {}, err |-> <<>>, refs |-> <<>>]

InFlightPcs ==
    {"list_http", "fetch_http", "fetch_git", "push_pack", "push_upload",
     "push_revparse", "push_update"}

\* ---- Init: lines 70-72 ----
Init ==
    /\ input = <<>>
    /\ handlers = <<>>
    /\ refToPackId = [r \in Refs |-> NoPackId]
    /\ heap = << <<>> >>
    /\ pendingPushes = 1
    /\ readingPushBatch = FALSE
    /\ output = <<>>
    /\ httpLog = <<>>
    /\ files = {}
    /\ now = 0
    /\ alive = TRUE

\* ---- helpers ----
\* Date.now(): the millisecond of the previous call, or a later one (which
\* later one makes no difference to the names built from it)
Clock == {now, now + 1}

\* the array pendingPushes refers to now
CurrentPushes == heap[pendingPushes]

\* out(...) of several lines
Write(ls) == output' = output \o ls

\* start of the listener for a new line (rl.on("line"), line 76)
Arrive(line) ==
    /\ alive
    /\ Len(input) < MaxLines
    /\ input' = Append(input, line)

\* an unhandled promise rejection of the listener: nothing catches what
\* handleList and handleFetch throw, and Node >= 15 ends the process
Reject(h, msg) ==
    /\ handlers' = [handlers EXCEPT ![h].pc = "rejected", ![h].err = msg]
    /\ alive' = FALSE

\* line 82: for (const { dst } of pendingPushes) out(`ok ${dst}`); out("")
ReportOk(h) ==
    [k \in 1..Len(CurrentPushes) |->
        OutLine(h, "ok", CurrentPushes[k].dst, "", CurrentPushes[k].ln, NoPath)]
    \o << Blank(h) >>

\* line 86: e.message.replace(/"/g, '\\"')
Escape(msg) ==
    LET RECURSIVE Esc(_)
        Esc(m) == IF m = <<>> THEN <<>>
                  ELSE IF Head(m) = QUOTE THEN << BACKSLASH, QUOTE >> \o Esc(Tail(m))
                  ELSE << Head(m) >> \o Esc(Tail(m))
    IN  Esc(msg)

\* line 86: for (const { dst } of pendingPushes) out(`error ${dst} "..."`); out("")
ReportError(h, msg) ==
    [k \in 1..Len(CurrentPushes) |->
        ErrorLine(h, CurrentPushes[k].dst, Escape(msg), CurrentPushes[k].ln)]
    \o << Blank(h) >>

\* line 89: pendingPushes = [] (a new array object)
ClearPending ==
    /\ heap' = Append(heap, <<>>)
    /\ pendingPushes' = Len(heap) + 1

\* lines 84-90: handlePushSelfPack threw msg
PushFailed(h, msg) ==
    /\ handlers' = [handlers EXCEPT ![h].pc = "done", ![h].err = msg]
    /\ Write(ReportError(h, msg))
    /\ ClearPending

\* line 189 with the two object ids of the entry mixed up
MakeUpdateOldFromNew(p, newOid, packId) ==
    [name |-> p.dst, oldOid |-> newOid, newOid |-> newOid, packId |-> packId,
     ln |-> p.ln]

\* line 189: one entry of the updateRefs body
MakeUpdate(p, newOid, packId) ==
    [name |-> p.dst, oldOid |-> "", newOid |-> newOid, packId |-> packId,
     ln |-> p.ln]

\* lines 186-194 from the loop test on: either the next rev-parse is spawned
\* or the loop is over and POST /updateRefs is issued.  The iterator reads
\* the array object it was created on (rec.arr), whatever it holds by now.
ContinueLoop(h, rec) ==
    IF rec.i <= Len(heap[rec.arr])
    THEN /\ handlers' = [handlers EXCEPT ![h] = [rec EXCEPT !.pc = "push_revparse"]]
         /\ UNCHANGED httpLog
    ELSE /\ handlers' = [handlers EXCEPT ![h] = [rec EXCEPT !.pc = "push_update"]]
         /\ httpLog' = Append(httpLog, Request(h, "updateRefs", rec.updates))

\* ---- the listener, by command (lines 76-131) ----
\* lines 100-105
Capabilities ==
    /\ Arrive(InputLine("capabilities", "", ""))
    /\ handlers' = Append(handlers, Handler("done"))
    /\ LET h == Len(input) + 1
       IN  Write(<< OutLine(h, "cap", "option", "", 0, NoPath),
                    OutLine(h, "cap", "fetch", "", 0, NoPath),
                    OutLine(h, "cap", "push", "", 0, NoPath),
                    Blank(h) >>)
    /\ UNCHANGED << refToPackId, heap, pendingPushes, readingPushBatch, httpLog,
                    files, now, alive >>

\* lines 107-109
Option ==
    /\ Arrive(InputLine("option", "verbosity", "1"))
    /\ handlers' = Append(handlers, Handler("done"))
    /\ Write(<< OutLine(Len(input) + 1, "optok", "", "", 0, NoPath) >>)
    /\ UNCHANGED << refToPackId, heap, pendingPushes, readingPushBatch, httpLog,
                    files, now, alive >>

\* lines 111-113 and 135: GET /refs is issued; the dispatch reads parts[0]
\* only, so what follows the command word (a) changes nothing
ListCmd(a) ==
    /\ Arrive(InputLine("list", a, ""))
    /\ handlers' = Append(handlers, Handler("list_http"))
    /\ httpLog' = Append(httpLog, Request(Len(input) + 1, "refs", <<>>))
    /\ UNCHANGED << refToPackId, heap, pendingPushes, readingPushBatch, output,
                    files, now, alive >>

\* `list`
List == ListCmd("")

\* `list for-push`
ListForPush == ListCmd("for-push")

\* lines 115-119 and 145-151: no packId known, or GET /packs/<id> is issued
Fetch ==
    \E f \in FetchArgs :
        /\ Arrive(InputLine("fetch", f[1], f[2]))
        /\ LET h == Len(input) + 1
               packId == refToPackId[f[2]]
           IN  IF packId = NoPackId
               THEN /\ handlers' = Append(handlers, Handler("done"))
                    /\ Write(<< Blank(h) >>)
                    /\ UNCHANGED httpLog
               ELSE /\ handlers' = Append(handlers,
                            [Handler("fetch_http") EXCEPT !.packId = packId])
                    /\ httpLog' = Append(httpLog, Request(h, "getPack", <<>>))
                    /\ UNCHANGED output
        /\ UNCHANGED << refToPackId, heap, pendingPushes, readingPushBatch,
                        files, now, alive >>

\* lines 121-126 with a status written as soon as the push line is read
PushAcked ==
    \E sd \in PushArgs :
        /\ Arrive(InputLine("push", sd[1], sd[2]))
        /\ handlers' = Append(handlers, Handler("done"))
        /\ heap' = [heap EXCEPT ![pendingPushes] =
                        Append(@, [src |-> sd[1], dst |-> sd[2], ln |-> Len(input) + 1])]
        /\ readingPushBatch' = TRUE
        /\ Write(<< OutLine(Len(input) + 1, "ok", sd[2], "", Len(input) + 1, NoPath) >>)
        /\ UNCHANGED << refToPackId, pendingPushes, httpLog, files, now, alive >>

\* lines 121-126
Push ==
    \E sd \in PushArgs :
        /\ Arrive(InputLine("push", sd[1], sd[2]))
        /\ handlers' = Append(handlers, Handler("done"))
        /\ heap' = [heap EXCEPT ![pendingPushes] =
                        Append(@, [src |-> sd[1], dst |-> sd[2], ln |-> Len(input) + 1])]
        /\ readingPushBatch' = TRUE
        /\ UNCHANGED << refToPackId, pendingPushes, output, httpLog, files, now,
                        alive >>

\* lines 128-129 answering a command it does not know
UnknownAnswered ==
    /\ Arrive(InputLine("connect", "git-upload-pack", ""))
    /\ handlers' = Append(handlers, Handler("done"))
    /\ Write(<< OutLine(Len(input) + 1, "unsupported", "", "", 0, NoPath) >>)
    /\ UNCHANGED << refToPackId, heap, pendingPushes, readingPushBatch, httpLog,
                    files, now, alive >>

\* lines 128-129
Unknown ==
    /\ Arrive(InputLine("connect", "git-upload-pack", ""))
    /\ handlers' = Append(handlers, Handler("done"))
    /\ UNCHANGED << refToPackId, heap, pendingPushes, readingPushBatch, output,
                    httpLog, files, now, alive >>

\* lines 77-93 and 167: the empty line; git pack-objects is spawned
EmptyLine ==
    /\ Arrive(InputLine("", "", ""))
    /\ IF readingPushBatch
       THEN /\ readingPushBatch' = FALSE
            /\ handlers' = Append(handlers, Handler("push_pack"))
       ELSE /\ UNCHANGED readingPushBatch
            /\ handlers' = Append(handlers, Handler("done"))
    /\ UNCHANGED << refToPackId, heap, pendingPushes, output, httpLog, files,
                    now, alive >>

\* ---- resumptions after I/O ----
Waiting(pc) == {h \in 1..Len(handlers) : handlers[h].pc = pc}

\* the packId the Map.set calls of lines 137-140 leave for ref r: that of
\* the last entry of refs named r that has one, NoPackId if there is none
LastPackId(refs, r) ==
    LET ks == {k \in 1..Len(refs) : refs[k].name = r /\ refs[k].packId # NoPackId}
    IN  IF ks = {} THEN NoPackId
        ELSE refs[CHOOSE k \in ks : \A m \in ks : m <= k].packId

\* lines 136-140 without the clear(): entries of the earlier listing stay
MergeCatalog(old, refs) ==
    [r \in Refs |-> IF LastPackId(refs, r) # NoPackId THEN LastPackId(refs, r)
                    ELSE old[r]]

\* lines 136-140: refToPackId.clear(), then one set() per ref with a packId
ReplaceCatalog(old, refs) == [r \in Refs |-> LastPackId(refs, r)]

\* line 138 written once for the whole listing instead of once per ref
ListLinesFirstOnly(h, refs) ==
    [k \in 1..Len(refs) |-> OutLine(h, "ref", refs[1].oid, refs[1].name, 0, NoPath)]
    \o << Blank(h) >>

\* lines 137-141: out(`${r.oid} ${r.name}`) per ref, then out("")
ListLines(h, refs) ==
    [k \in 1..Len(refs) |-> OutLine(h, "ref", refs[k].oid, refs[k].name, 0, NoPath)]
    \o << Blank(h) >>

\* lines 136-141: GET /refs answered with a JSON body j holding refs
\* (Map.clear and the Map.set calls happen in this one segment)
ListOk ==
    \E h \in Waiting("list_http"), refs \in RefLists :
        /\ alive
        /\ refToPackId' = ReplaceCatalog(refToPackId, refs)
        /\ Write(ListLines(h, refs))
        /\ handlers' = [handlers EXCEPT ![h].pc = "done", ![h].refs = refs]
        /\ UNCHANGED << input, heap, pendingPushes, readingPushBatch, httpLog,
                        files, now, alive >>

\* lines 56-67 throwing inside handleList: nothing catches it
ListFail ==
    \E h \in Waiting("list_http") :
        /\ alive
        /\ Reject(h, HttpFailure)
        /\ UNCHANGED << input, refToPackId, heap, pendingPushes, readingPushBatch,
                        output, httpLog, files, now >>

\* lines 153-158: the pack arrived; it is written and git index-pack spawned
FetchPackOk ==
    \E h \in Waiting("fetch_http"), t \in Clock :
        /\ alive
        /\ now' = t
        /\ files' = files \cup {Path("pack", t)}
        /\ handlers' = [handlers EXCEPT ![h].pc = "fetch_git"]
        /\ UNCHANGED << input, refToPackId, heap, pendingPushes, readingPushBatch,
                        output, httpLog, alive >>

\* lines 56-60 throwing inside handleFetch: nothing catches it
FetchPackFail ==
    \E h \in Waiting("fetch_http") :
        /\ alive
        /\ Reject(h, HttpFailure)
        /\ UNCHANGED << input, refToPackId, heap, pendingPushes, readingPushBatch,
                        output, httpLog, files, now >>

\* lines 160-163: index-pack exited 0
IndexPackOk ==
    \E h \in Waiting("fetch_git"), t \in Clock :
        /\ alive
        /\ now' = t
        /\ files' = files \cup {Path("keep", t)}
        /\ Write(<< OutLine(h, "lock", "", "", 0, Path("keep", t)), Blank(h) >>)
        /\ handlers' = [handlers EXCEPT ![h].pc = "done"]
        /\ UNCHANGED << input, refToPackId, heap, pendingPushes, readingPushBatch,
                        httpLog, alive >>

\* lines 201-206 rejecting inside handleFetch: nothing catches it
IndexPackFail ==
    \E h \in Waiting("fetch_git") :
        /\ alive
        /\ Reject(h, IndexPackError)
        /\ UNCHANGED << input, refToPackId, heap, pendingPushes, readingPushBatch,
                        output, httpLog, files, now >>

\* lines 167-174: pack-objects exited 0; POST /packs is issued
PackObjectsOk ==
    \E h \in Waiting("push_pack") :
        /\ alive
        /\ handlers' = [handlers EXCEPT ![h].pc = "push_upload"]
        /\ httpLog' = Append(httpLog, Request(h, "uploadPack", <<>>))
        /\ UNCHANGED << input, refToPackId, heap, pendingPushes, readingPushBatch,
                        output, files, now, alive >>

\* lines 217-227 rejecting, caught at line 84
PackObjectsFail ==
    \E h \in Waiting("push_pack") :
        /\ alive
        /\ PushFailed(h, PackObjectsError)
        /\ UNCHANGED << input, refToPackId, readingPushBatch, httpLog, files, now,
                        alive >>

\* lines 176-187: the upload returned a packId; the loop over pendingPushes
\* starts on the array pendingPushes refers to now
UploadOk ==
    \E h \in Waiting("push_upload"), p \in PackIds :
        /\ alive
        /\ ContinueLoop(h, [handlers[h] EXCEPT !.packId = p, !.arr = pendingPushes,
                                               !.i = 1])
        /\ UNCHANGED << input, refToPackId, heap, pendingPushes, readingPushBatch,
                        output, files, now, alive >>

\* lines 56-67 and 176-178 throwing, caught at line 84
UploadFail ==
    \E h \in Waiting("push_upload"), msg \in HttpErrors \cup {NoPackIdError} :
        /\ alive
        /\ PushFailed(h, msg)
        /\ UNCHANGED << input, refToPackId, readingPushBatch, httpLog, files, now,
                        alive >>

\* lines 187-190: rev-parse exited 0 and printed an object id
RevParseOk ==
    \E h \in Waiting("push_revparse") :
        /\ alive
        /\ LET rec == handlers[h]
               p == heap[rec.arr][rec.i]
               newOid == LocalRefs[p.src]
           IN  ContinueLoop(h, [rec EXCEPT
                                   !.updates = Append(@, MakeUpdate(p, newOid, rec.packId)),
                                   !.i = @ + 1])
        /\ UNCHANGED << input, refToPackId, heap, pendingPushes, readingPushBatch,
                        output, files, now, alive >>

\* lines 187-188 throwing (nonzero exit, or nothing printed), caught at line 84
RevParseFail ==
    \E h \in Waiting("push_revparse"), msg \in {RevParseExitError, RevParseError} :
        /\ alive
        /\ PushFailed(h, msg)
        /\ UNCHANGED << input, refToPackId, readingPushBatch, httpLog, files, now,
                        alive >>

\* lines 192-197 and 82-83, 89: updateRefs answered with a success status and
\* a JSON body res (here: the refs the store accepted), which nothing reads
UpdateRefsOk ==
    \E h \in Waiting("push_update") :
        \E accepted \in SUBSET {handlers[h].updates[k].name :
                                    k \in 1..Len(handlers[h].updates)} :
            /\ alive
            /\ handlers' = [handlers EXCEPT ![h].pc = "done", ![h].res = accepted]
            /\ Write(ReportOk(h))
            /\ ClearPending
            /\ UNCHANGED << input, refToPackId, readingPushBatch, httpLog, files,
                            now, alive >>

\* lines 60 and 84-90: the store took some refs of the request and refused
\* others, and answered with a non-success status; the body goes into the
\* message of the error thrown and is not read
UpdateRefsRefused ==
    \E h \in Waiting("push_update") :
        \E accepted \in SUBSET {handlers[h].updates[k].name :
                                    k \in 1..Len(handlers[h].updates)} :
            /\ alive
            /\ accepted # {}
            /\ accepted # {handlers[h].updates[k].name : k \in 1..Len(handlers[h].updates)}
            /\ handlers' = [handlers EXCEPT ![h].pc = "done", ![h].res = accepted,
                                            ![h].err = HttpStatusError]
            /\ Write(ReportError(h, HttpStatusError))
            /\ ClearPending
            /\ UNCHANGED << input, refToPackId, readingPushBatch, httpLog, files,
                            now, alive >>

\* lines 56-67 throwing inside the updateRefs call, caught at line 84
UpdateRefsFail ==
    \E h \in Waiting("push_update"), msg \in HttpErrors :
        /\ alive
        /\ PushFailed(h, msg)
        /\ UNCHANGED << input, refToPackId, readingPushBatch, httpLog, files, now,
                        alive >>

Next ==
    \/ Capabilities
    \/ Option
    \/ List
    \/ Fetch
    \/ Push
    \/ Unknown
    \/ EmptyLine
    \/ ListOk
    \/ ListFail
    \/ FetchPackOk
    \/ FetchPackFail
    \/ IndexPackOk
    \/ IndexPackFail
    \/ PackObjectsOk
    \/ PackObjectsFail
    \/ UploadOk
    \/ UploadFail
    \/ RevParseOk
    \/ RevParseFail
    \/ UpdateRefsOk
    \/ UpdateRefsRefused
    \/ UpdateRefsFail

Spec == Init /\ [][Next]_vars

\* The session of a fetch (capabilities, listings, fetches) with both forms
\* of list: no push line is read, so no batch is published.
NextList ==
    \/ Capabilities
    \/ List
    \/ ListForPush
    \/ Fetch
    \/ ListOk
    \/ ListFail
    \/ FetchPackOk
    \/ FetchPackFail
    \/ IndexPackOk
    \/ IndexPackFail

ListSpec == Init /\ [][NextList]_vars

\* ======================= properties =======================
Handlers == 1..Len(handlers)
Terminated(h) == handlers[h].pc \in {"done", "rejected"}
InFlight == {h \in Handlers : handlers[h].pc \in InFlightPcs}

\* the push lines of the batch that the empty line h ends: those after the
\* previous empty line
BatchLines(h) ==
    {j \in 1..(h - 1) :
        /\ input[j].cmd = "push"
        /\ \A k \in (j + 1)..(h - 1) : input[k].cmd # ""}

\* the empty lines that end a push batch
Terminators == {h \in 1..Len(input) : input[h].cmd = "" /\ BatchLines(h) # {}}

\* a set of line numbers in increasing order
SortedLines(S) ==
    [k \in 1..Cardinality(S) |-> CHOOSE x \in S : Cardinality({y \in S : y < x}) = k - 1]

\* what handler h wrote, in order
OutOf(out, h) == SelectSeq(out, LAMBDA o : o.h = h)

\* the input lines whose push got a status line of that kind, from anyone
Reported(out, kind) == {out[k].ln : k \in {m \in 1..Len(out) : out[m].kind = kind}}

\* the input lines whose push handler h reported
ReportedBy(out, h) ==
    {out[k].ln : k \in {m \in 1..Len(out) : out[m].h = h /\ out[m].kind \in {"ok", "error"}}}

\* the input lines of the pushes handler h submitted in updateRefs requests
SubmittedBy(h) ==
    UNION { {httpLog[k].updates[m].ln : m \in 1..Len(httpLog[k].updates)} :
            k \in {n \in 1..Len(httpLog) : httpLog[n].h = h /\ httpLog[n].op = "updateRefs"} }

\* the tip of ref r in the most recent listing written to stdout ("" if the
\* listing does not hold r, or nothing was listed yet)
ListBlanks == {k \in 1..Len(output) :
                  output[k].kind = "blank" /\ input[output[k].h].cmd = "list"}
LastListedTip(r) ==
    IF ListBlanks = {} THEN ""
    ELSE LET last == CHOOSE k \in ListBlanks : \A m \in ListBlanks : m <= k
             lines == {k \in 1..Len(output) :
                          /\ output[k].h = output[last].h
                          /\ output[k].kind = "ref"
                          /\ output[k].b = r}
         IN  IF lines = {} THEN "" ELSE output[CHOOSE k \in lines : TRUE].a

\* C1: all response lines of a command are written before any response line
\* of a later command: stdout is ordered by the command that wrote the line.
ResponsesInCommandOrder ==
    \A i, j \in 1..Len(output) : i < j => output[i].h <= output[j].h

\* C2: once the handler of a batch's empty line is done it has written exactly
\* one status line per push line of that batch, in the order of the push
\* lines, and then exactly one blank line.
BatchShapePreserved ==
    \A h \in Terminators \cap Handlers :
        handlers[h].pc = "done" =>
            LET o == OutOf(output, h)
                lines == SortedLines(BatchLines(h))
                n == Len(lines)
            IN  /\ Len(o) = n + 1
                /\ \A k \in 1..n :
                       /\ o[k].kind \in {"ok", "error"}
                       /\ o[k].ln = lines[k]
                       /\ o[k].a = input[lines[k]].b
                /\ o[n + 1].kind = "blank"

\* C3: a fetch command whose handling has ended, by return or by a thrown
\* error, has been answered with a blank line.
FetchAlwaysAnswered ==
    \A h \in Handlers :
        (input[h].cmd = "fetch" /\ Terminated(h)) =>
            \E k \in 1..Len(output) : output[k].h = h /\ output[k].kind = "blank"

\* the store answered the updateRefs request of h with per-ref outcomes
StoreDecided(h) ==
    /\ input[h].cmd = ""
    /\ handlers[h].pc = "done"
    /\ handlers[h].packId # NoPackId
    /\ handlers[h].err = <<>> \/ handlers[h].res # {}

\* C4: after an updateRefs answer, every ref the store rejected got an error
\* line and no ok line from that batch, and every ref it accepted got an ok
\* line.
RejectedRefsReportedAsErrors ==
    \A h \in Handlers :
        StoreDecided(h) =>
            \A k \in 1..Len(handlers[h].updates) :
                LET u == handlers[h].updates[k]
                    kinds == {output[m].kind : m \in {n \in 1..Len(output) :
                                 output[n].h = h /\ output[n].a = u.name
                                 /\ output[n].kind \in {"ok", "error"}}}
                IN  IF u.name \in handlers[h].res
                    THEN "ok" \in kinds
                    ELSE kinds = {"error"}

\* the step in which handler h issues POST /updateRefs
IssuesUpdateRefs(h) ==
    handlers[h].pc # "push_update" /\ handlers'[h].pc = "push_update"

NoHttpBeforeResolution ==
    \A h \in Handlers :
        handlers[h].err \in {RevParseExitError, RevParseError} =>
            \A k \in 1..Len(httpLog) : httpLog[k].h # h

\* the step in which the upload or the updateRefs request of h fails at
\* transport level
TransportFailure(h) ==
    /\ handlers[h].pc \in {"push_upload", "push_update"}
    /\ handlers'[h].pc = "done"
    /\ handlers'[h].err \in HttpErrors

\* C7: when the upload or the updateRefs request of a batch fails at transport
\* level, every push of the batch is reported with an error line carrying
\* that failure's message, none with an ok line, and the process lives on.
TransportFailureFailsWholeBatch ==
    [][\A h \in Handlers :
          TransportFailure(h) =>
              /\ alive'
              /\ BatchLines(h) \cap Reported(output', "ok") = {}
              /\ \A j \in BatchLines(h) :
                     \E k \in 1..Len(output') :
                         /\ output'[k].kind = "error"
                         /\ output'[k].ln = j
                         /\ output'[k].msg = Escape(handlers'[h].err)]_vars

\* the pack of fetch h was downloaded
Downloaded(h) ==
    \/ handlers[h].pc = "fetch_git"
    \/ handlers[h].pc = "done" /\ handlers[h].packId # NoPackId
    \/ handlers[h].pc = "rejected" /\ handlers[h].err = IndexPackError

\* C8: a fetch that has ended after downloading a pack (import failed or not)
\* wrote a lock line; every lock line names a file that exists; a fetch that
\* downloaded nothing wrote no lock line.
LockIffDownloaded ==
    \A h \in Handlers :
        input[h].cmd = "fetch" =>
            LET locks == {k \in 1..Len(output) :
                             output[k].h = h /\ output[k].kind = "lock"}
            IN  /\ (Terminated(h) /\ Downloaded(h)) => locks # {}
                /\ ~Downloaded(h) => locks = {}
                /\ \A k \in locks : output[k].path \in files

\* C9: at most one command is being handled (waiting on HTTP or on a git
\* child process) at any time.
OneCommandAtATime == Cardinality(InFlight) <= 1

\* C10: when the handling of a batch's empty line ends, the pending queue is
\* empty, the pushes it reported are exactly the push lines of that batch,
\* and it submitted no push line of another batch.
BatchConsumedByItsTerminator ==
    [][\A h \in Handlers :
          (input[h].cmd = "" /\ handlers[h].pc \in InFlightPcs
           /\ handlers'[h].pc = "done") =>
              /\ heap'[pendingPushes'] = <<>>
              /\ ReportedBy(output', h) = BatchLines(h)
              /\ SubmittedBy(h) \subseteq BatchLines(h)]_vars

\* ---- the ref catalog ----
\* the list commands answered so far, and the one answered last
ListsDone == {h \in Handlers : input[h].cmd = "list" /\ handlers[h].pc = "done"}
LastListDone == output[CHOOSE k \in ListBlanks : \A m \in ListBlanks : m <= k].h

\* what a listing says about ref r: the packId of its entry for r, none if it
\* has no entry for r or the entry carries no packId
ListedPackId(refs, r) ==
    IF \E k \in 1..Len(refs) : refs[k].name = r
    THEN refs[CHOOSE k \in 1..Len(refs) : refs[k].name = r].packId
    ELSE NoPackId

\* C11: the catalog is empty before the first listing and after that holds,
\* for every ref, exactly what the listing answered last says about it:
\* nothing of an earlier listing survives and no two listings are ever mixed.
CatalogIsLastListing ==
    \A r \in Refs :
        refToPackId[r] = IF ListsDone = {} THEN NoPackId
                         ELSE ListedPackId(handlers[LastListDone].refs, r)

\* C11 witness: a listing was answered after one that had a pack for a ref
\* which the later one no longer has, and the catalog has dropped it.
StaleEntryDropped ==
    \E h \in ListsDone, r \in Refs :
        /\ h # LastListDone
        /\ ListedPackId(handlers[h].refs, r) # NoPackId
        /\ ListedPackId(handlers[LastListDone].refs, r) = NoPackId
        /\ refToPackId[r] = NoPackId

\* C12: a list command that was answered wrote one `<oid> <refname>` line per
\* ref of the response, in the order of the response, and then exactly one
\* blank line (only the blank line for an empty response).
ListShape ==
    \A h \in ListsDone :
        LET o == OutOf(output, h)
            refs == handlers[h].refs
        IN  /\ Len(o) = Len(refs) + 1
            /\ \A k \in 1..Len(refs) :
                   /\ o[k].kind = "ref"
                   /\ o[k].a = refs[k].oid
                   /\ o[k].b = refs[k].name
            /\ o[Len(refs) + 1].kind = "blank"

\* C12 witness: a `list for-push` answered with two refs and a `list`
\* answered with none have both been written out.
TwoRefsAndEmptyListed ==
    \E h, g \in ListsDone :
        /\ input[h].a = "for-push" /\ Len(handlers[h].refs) = 2
        /\ input[g].a = "" /\ Len(handlers[g].refs) = 0
        /\ Len(OutOf(output, g)) = 1

\* ---- single lines ----
\* the step that reads a new input line, and that line
ReadsLine == Len(input') = Len(input) + 1
NewLine == input'[Len(input')]
\* the handlers that existed before are where they were
OthersUntouched == \A h \in Handlers : handlers'[h] = handlers[h]

\* C13: a fetch of a ref whose pack an earlier fetch of this session has
\* downloaded and imported, and which the catalog still names for the ref,
\* downloads nothing and is answered with just the blank line.
RefetchDownloadsNothing ==
    [][(ReadsLine /\ NewLine.cmd = "fetch"
        /\ \E g \in Handlers :
               /\ input[g].cmd = "fetch" /\ input[g].b = NewLine.b
               /\ handlers[g].pc = "done"
               /\ handlers[g].packId # NoPackId
               /\ handlers[g].packId = refToPackId[NewLine.b])
       => /\ httpLog' = httpLog
          /\ output' = Append(output, Blank(Len(input')))]_vars

\* C14: every `ok <dst>` line stands for an entry of the updateRefs request
\* of the batch that wrote it, naming <dst> with the object id <src> resolves
\* to, which the store accepted (and so holds for <dst>).
OkMeansStored ==
    \A k \in 1..Len(output) :
        output[k].kind = "ok" =>
            LET h == output[k].h
                ups == handlers[h].updates
            IN  \E m \in 1..Len(ups) :
                    /\ ups[m].ln = output[k].ln
                    /\ ups[m].name = output[k].a
                    /\ ups[m].newOid = LocalRefs[input[output[k].ln].a]
                    /\ ups[m].name \in handlers[h].res

\* C15: reading a push line appends it to the pending batch and does nothing
\* else: no output, no HTTP request, no git process (its handler is done at
\* once), no file; uploads and updateRefs requests come from the handlers of
\* empty lines only.
PushOnlyQueues ==
    [][(ReadsLine /\ NewLine.cmd = "push")
       => /\ output' = output
          /\ httpLog' = httpLog
          /\ files' = files
          /\ handlers'[Len(input')].pc = "done"
          /\ OthersUntouched
          /\ pendingPushes' = pendingPushes
          /\ heap'[pendingPushes] =
                 Append(CurrentPushes,
                        [src |-> NewLine.a, dst |-> NewLine.b, ln |-> Len(input')])
          /\ \A k \in 1..Len(httpLog') :
                 httpLog'[k].op \in {"uploadPack", "updateRefs"}
                     => input'[httpLog'[k].h].cmd = ""]_vars

\* C15 witness: the line read last is a push line that is queued behind
\* another push and has caused no output and no request, while a batch
\* is being published.
PushQueuedSilently ==
    /\ Len(input) > 0
    /\ input[Len(input)].cmd = "push"
    /\ Len(CurrentPushes) >= 2
    /\ CurrentPushes[Len(CurrentPushes)].ln = Len(input)
    /\ OutOf(output, Len(input)) = <<>>
    /\ \A k \in 1..Len(httpLog) : httpLog[k].h # Len(input)
    /\ InFlight # {}

KnownCmds == {"capabilities", "option", "list", "fetch", "push", ""}

\* C16: reading a line with an unknown command word writes nothing, issues no
\* request, starts no process and leaves the session state as it was; the
\* process lives on.
UnknownIgnored ==
    [][(ReadsLine /\ NewLine.cmd \notin KnownCmds)
       => /\ UNCHANGED << output, httpLog, files, heap, pendingPushes,
                          readingPushBatch, refToPackId, now, alive >>
          /\ handlers'[Len(input')].pc = "done"
          /\ OthersUntouched]_vars

\* C16 witness: a command read after an unknown one has been answered, with a
\* push batch pending across the unknown line.
AnsweredAfterUnknown ==
    \E h \in Handlers :
        /\ input[h].cmd \notin KnownCmds
        /\ \E k \in 1..Len(output) : output[k].h > h
        /\ \E j \in 1..(h - 1) : input[j].cmd = "push"
        /\ readingPushBatch

\* ---- error lines ----
\* msg, read as the inside of a double-quoted string, runs to its end: a
\* backslash takes the character after it, no quote stands bare, and the
\* last character is not a backslash that would take the closing quote
RunsToItsEnd(msg) ==
    LET RECURSIVE Scan(_, _)
        Scan(m, taken) ==
            IF m = <<>> THEN ~taken
            ELSE IF taken THEN Scan(Tail(m), FALSE)
            ELSE IF Head(m) = BACKSLASH THEN Scan(Tail(m), TRUE)
            ELSE Head(m) # QUOTE /\ Scan(Tail(m), FALSE)
    IN  Scan(msg, FALSE)

\* C17: every error line is one line: between the quotes of its template
\* there is no line break, and no quote of the message ends the quoted
\* string before its end.
ErrorLineIsOneQuotedLine ==
    \A k \in 1..Len(output) :
        output[k].kind = "error" =>
            /\ \A n \in 1..Len(output[k].msg) : output[k].msg[n] # NEWLINE
            /\ RunsToItsEnd(output[k].msg)

\* ---- pack directory ----
\* C18: the helper only adds files to the pack directory: each pack file and
\* each keep file it writes goes to a path no earlier write of the session
\* used, and no file goes away.
PackDirAppendOnly ==
    [][/\ files \subseteq files'
       /\ \A h \in Handlers :
              /\ (handlers[h].pc = "fetch_http" /\ handlers'[h].pc = "fetch_git")
                     => Path("pack", now') \notin files
              /\ (handlers[h].pc = "fetch_git" /\ handlers'[h].pc = "done")
                     => Path("keep", now') \notin files]_vars

\* ---- steps of a push batch ----
\* the positions in httpLog of the requests op that handler h issued
RequestsOf(h, op) ==
    {k \in 1..Len(httpLog) : httpLog[k].h = h /\ httpLog[k].op = op}

\* C19: an updateRefs request follows the upload of its own batch and names
\* the packId that upload returned in every entry; a batch sends at most one;
\* and an ok line for a push is on the output only when the one updateRefs
\* request of the handler that wrote it carried that push and has returned
\* with success.
PushStepsInOrder ==
    /\ \A h \in Handlers :
           /\ Cardinality(RequestsOf(h, "updateRefs")) <= 1
           /\ \A k \in RequestsOf(h, "updateRefs") :
                  /\ \E j \in RequestsOf(h, "uploadPack") : j < k
                  /\ handlers[h].packId # NoPackId
                  /\ \A m \in 1..Len(httpLog[k].updates) :
                         httpLog[k].updates[m].packId = handlers[h].packId
    /\ \A n \in 1..Len(output) :
           output[n].kind = "ok" =>
               LET h == output[n].h
               IN  /\ handlers[h].pc = "done"
                   /\ handlers[h].err = <<>>
                   /\ \E k \in RequestsOf(h, "updateRefs") :
                          \E m \in 1..Len(httpLog[k].updates) :
                              httpLog[k].updates[m].ln = output[n].ln

\* C20: while the push-batch flag is set the pending queue holds a push, and
\* no updateRefs request goes out with an empty update list.
FlagMeansQueued ==
    /\ readingPushBatch => CurrentPushes # <<>>
    /\ \A k \in 1..Len(httpLog) :
           httpLog[k].op = "updateRefs" => httpLog[k].updates # <<>>

====
